---- MODULE Spec2Model ----
(***************************************************************************)
(* Recipe recommendation engines of the smart-recipe-generator:            *)
(*   SimpleRecipeRecommender       (src/app_working.py)                    *)
(*   RecipeRecommendationEngine    (src/app.py)                            *)
(* A Python str is modelled as the sequence of its characters, so that     *)
(* lower(), strip(), `in` (substring) and the tokenizer are computed.      *)
(* None and '' are both falsy wherever the code reads an optional query    *)
(* string; both are the empty sequence here.  A missing optional integer   *)
(* (None) is 0, which the code's truth test treats the same way.           *)
(***************************************************************************)
EXTENDS Integers, Sequences, FiniteSets, TLC

(* ------------------------------ strings ------------------------------ *)
S_rice == <<"r", "i", "c", "e">>
S_RiceSp == <<" ", "R", "i", "c", "e">>
S_garlic == <<"g", "a", "r", "l", "i", "c">>
S_tofu == <<"t", "o", "f", "u">>
S_chicken_breast == <<"c", "h", "i", "c", "k", "e", "n", " ", "b", "r", "e", "a", "s", "t">>
S_butter == <<"b", "u", "t", "t", "e", "r">>
S_flour == <<"f", "l", "o", "u", "r">>
S_kale == <<"k", "a", "l", "e">>
S_chicken == <<"c", "h", "i", "c", "k", "e", "n">>
S_beef == <<"b", "e", "e", "f">>
S_pork == <<"p", "o", "r", "k">>
S_lamb == <<"l", "a", "m", "b">>
S_fish == <<"f", "i", "s", "h">>
S_shrimp == <<"s", "h", "r", "i", "m", "p">>
S_bacon == <<"b", "a", "c", "o", "n">>
S_cheese == <<"c", "h", "e", "e", "s", "e">>
S_milk == <<"m", "i", "l", "k">>
S_eggs == <<"e", "g", "g", "s">>
S_egg == <<"e", "g", "g">>
S_easy == <<"e", "a", "s", "y">>
S_Easy == <<"E", "a", "s", "y">>
S_asian == <<"a", "s", "i", "a", "n">>
S_Asian == <<"A", "s", "i", "a", "n">>
S_french == <<"f", "r", "e", "n", "c", "h">>
S_vegetarian == <<"v", "e", "g", "e", "t", "a", "r", "i", "a", "n">>
S_vegan == <<"v", "e", "g", "a", "n">>
S_gluten_free == <<"g", "l", "u", "t", "e", "n", "_", "f", "r", "e", "e">>
S_gluten_hyphen_free == <<"g", "l", "u", "t", "e", "n", "-", "f", "r", "e", "e">>
S_dairy_free == <<"d", "a", "i", "r", "y", "_", "f", "r", "e", "e">>
S_dairy_hyphen_free == <<"d", "a", "i", "r", "y", "-", "f", "r", "e", "e">>
S_keto == <<"k", "e", "t", "o">>
S_contains_dairy == <<"c", "o", "n", "t", "a", "i", "n", "s", "_", "d", "a", "i", "r", "y">>
S_contains_eggs == <<"c", "o", "n", "t", "a", "i", "n", "s", "_", "e", "g", "g", "s">>
S_contains_gluten == <<"c", "o", "n", "t", "a", "i", "n", "s", "_", "g", "l", "u", "t", "e", "n">>
S_sugar == <<"s", "u", "g", "a", "r">>
S_cream == <<"c", "r", "e", "a", "m">>
S_oil == <<"o", "i", "l">>
S_onion == <<"o", "n", "i", "o", "n">>
S_and == <<"a", "n", "d">>
S_the == <<"t", "h", "e">>
S_of == <<"o", "f">>
S_with == <<"w", "i", "t", "h">>
S_olive_oil == <<"o", "l", "i", "v", "e", " ", "o", "i", "l">>
S_coconut_oil == <<"c", "o", "c", "o", "n", "u", "t", " ", "o", "i", "l">>
S_margarine == <<"m", "a", "r", "g", "a", "r", "i", "n", "e">>
S_almond_milk == <<"a", "l", "m", "o", "n", "d", " ", "m", "i", "l", "k">>
S_soy_milk == <<"s", "o", "y", " ", "m", "i", "l", "k">>
S_coconut_milk == <<"c", "o", "c", "o", "n", "u", "t", " ", "m", "i", "l", "k">>
S_flax_eggs == <<"f", "l", "a", "x", " ", "e", "g", "g", "s">>
S_chia_eggs == <<"c", "h", "i", "a", " ", "e", "g", "g", "s">>
S_applesauce == <<"a", "p", "p", "l", "e", "s", "a", "u", "c", "e">>
S_almond_flour == <<"a", "l", "m", "o", "n", "d", " ", "f", "l", "o", "u", "r">>
S_coconut_flour == <<"c", "o", "c", "o", "n", "u", "t", " ", "f", "l", "o", "u", "r">>
S_oat_flour == <<"o", "a", "t", " ", "f", "l", "o", "u", "r">>
S_honey == <<"h", "o", "n", "e", "y">>
S_maple_syrup == <<"m", "a", "p", "l", "e", " ", "s", "y", "r", "u", "p">>
S_stevia == <<"s", "t", "e", "v", "i", "a">>
S_tempeh == <<"t", "e", "m", "p", "e", "h">>
S_mushrooms == <<"m", "u", "s", "h", "r", "o", "o", "m", "s">>
S_lentils == <<"l", "e", "n", "t", "i", "l", "s">>
S_black_beans == <<"b", "l", "a", "c", "k", " ", "b", "e", "a", "n", "s">>
S_portobello_mushrooms == <<"p", "o", "r", "t", "o", "b", "e", "l", "l", "o", " ", "m", "u", "s", "h", "r", "o", "o", "m", "s">>
S_nutritional_yeast == <<"n", "u", "t", "r", "i", "t", "i", "o", "n", "a", "l", " ", "y", "e", "a", "s", "t">>
S_cashew_cheese == <<"c", "a", "s", "h", "e", "w", " ", "c", "h", "e", "e", "s", "e">>
S_vegan_cheese == <<"v", "e", "g", "a", "n", " ", "c", "h", "e", "e", "s", "e">>
S_coconut_cream == <<"c", "o", "c", "o", "n", "u", "t", " ", "c", "r", "e", "a", "m">>
S_cashew_cream == <<"c", "a", "s", "h", "e", "w", " ", "c", "r", "e", "a", "m">>
S_silken_tofu == <<"s", "i", "l", "k", "e", "n", " ", "t", "o", "f", "u">>
S_tempeh_bacon == <<"t", "e", "m", "p", "e", "h", " ", "b", "a", "c", "o", "n">>
S_coconut_bacon == <<"c", "o", "c", "o", "n", "u", "t", " ", "b", "a", "c", "o", "n">>
S_mushroom_bacon == <<"m", "u", "s", "h", "r", "o", "o", "m", " ", "b", "a", "c", "o", "n">>
S_ghee == <<"g", "h", "e", "e">>
S_shallots == <<"s", "h", "a", "l", "l", "o", "t", "s">>
S_garlic_powder == <<"g", "a", "r", "l", "i", "c", " ", "p", "o", "w", "d", "e", "r">>
S_onion_powder == <<"o", "n", "i", "o", "n", " ", "p", "o", "w", "d", "e", "r">>

UpperChars == <<"A","B","C","D","E","F","G","H","I","J","K","L","M",
                "N","O","P","Q","R","S","T","U","V","W","X","Y","Z">>
LowerChars == <<"a","b","c","d","e","f","g","h","i","j","k","l","m",
                "n","o","p","q","r","s","t","u","v","w","x","y","z">>

\* str.lower() on one character
LowerChar(c) ==
    IF \E i \in 1..Len(UpperChars) : UpperChars[i] = c
    THEN LowerChars[CHOOSE i \in 1..Len(UpperChars) : UpperChars[i] = c]
    ELSE c

\* str.lower()
Lower(s) == [i \in 1..Len(s) |-> LowerChar(s[i])]

IsSpace(c) == c = " "

\* str.strip(): leading and trailing whitespace removed
Strip(s) ==
    LET nonsp == {i \in 1..Len(s) : ~IsSpace(s[i])}
    IN  IF nonsp = {} THEN <<>>
        ELSE LET lo == CHOOSE i \in nonsp : \A j \in nonsp : i <= j
                 hi == CHOOSE i \in nonsp : \A j \in nonsp : j <= i
             IN  SubSeq(s, lo, hi)

\* Python's `k in s` on two strings: k is a substring of s
Contains(s, k) ==
    \E i \in 1..(Len(s) - Len(k) + 1) : SubSeq(s, i, i + Len(k) - 1) = k

\* ' '.join(list of str)
RECURSIVE Join(_)
Join(parts) ==
    IF parts = <<>> THEN <<>>
    ELSE IF Len(parts) = 1 THEN parts[1]
    ELSE parts[1] \o <<" ">> \o Join(Tail(parts))

\* the set of elements of a sequence
Range(s) == {s[i] : i \in 1..Len(s)}

\* dict.get(key, default) on a record whose fields may be absent
Get(r, k, default) == IF k \in DOMAIN r THEN r[k] ELSE default

(* ------------------------------ recipes ------------------------------ *)
\* dietary_info as a dict of boolean flags (app_working.py's corpus shape)
DictInfo(keys, vals) == [form |-> "dict", keys |-> keys, vals |-> vals, tags |-> <<>>]
\* dietary_info as a list of free-text tags (app.py's corpus shape)
ListInfo(tags) == [form |-> "list", keys |-> <<>>, vals |-> <<>>, tags |-> tags]

\* dict.get(key, default) on a dict-form dietary_info
DictGet(d, k, default) ==
    IF \E i \in 1..Len(d.keys) : d.keys[i] = k
    THEN d.vals[CHOOSE i \in 1..Len(d.keys) : d.keys[i] = k]
    ELSE default

\* `x in dietary_info`: list membership, or key membership for a dict
InInfo(x, d) == IF d.form = "list" THEN x \in Range(d.tags) ELSE x \in Range(d.keys)

Recipe1 == [id |-> 1, ingredients |-> <<S_chicken_breast, S_rice, S_garlic>>,
            cooking_time |-> 20, difficulty |-> S_easy, cuisine |-> S_asian,
            dietary_info |-> ListInfo(<<>>)]
Recipe2 == [id |-> 2, ingredients |-> <<S_tofu, S_rice, S_garlic>>,
            cooking_time |-> 15, difficulty |-> S_easy, cuisine |-> S_asian,
            dietary_info |-> DictInfo(<<S_vegetarian, S_vegan>>, <<TRUE, TRUE>>)]
Recipe3 == [id |-> 3, ingredients |-> <<S_RiceSp>>, dietary_info |-> ListInfo(<<>>)]
Recipe4 == [id |-> 4, ingredients |-> <<S_butter, S_flour, S_rice, S_sugar, S_egg>>,
            cooking_time |-> 30, difficulty |-> S_Easy, cuisine |-> S_french,
            dietary_info |-> ListInfo(<<S_contains_dairy, S_contains_gluten>>)]
Recipe5 == [id |-> 5, ingredients |-> <<>>, cooking_time |-> 5, difficulty |-> S_Easy]
Recipe6 == [id |-> 6, ingredients |-> <<S_rice, S_garlic, S_RiceSp>>,
            cooking_time |-> 10, difficulty |-> S_easy, cuisine |-> S_Asian,
            dietary_info |-> DictInfo(<<S_vegetarian, S_vegan, S_gluten_free, S_dairy_free>>,
                                      <<TRUE, FALSE, TRUE, FALSE>>)]
Recipe7 == [id |-> 7, ingredients |-> <<S_chicken>>]

\* the recipes a corpus (data/recipes.json) is drawn from, in file order
RecipePool == <<Recipe6, Recipe1, Recipe2, Recipe3, Recipe4, Recipe5, Recipe7>>

MaxCorpus == 2

\* every corpus: at most MaxCorpus recipes of the pool, in file order
RECURSIVE Pick(_, _)
Pick(idx, k) ==
    IF k = {} THEN <<>>
    ELSE LET i == CHOOSE a \in k : \A b \in k : a <= b
         IN  <<idx[i]>> \o Pick(idx, k \ {i})
Corpora ==
    {Pick(RecipePool, k) : k \in {c \in SUBSET (1..Len(RecipePool)) : Cardinality(c) <= MaxCorpus}}

(* --------------------------- dietary filter --------------------------- *)
\* mutant: the vegan branch reads the vegetarian flag
SimpleFlagOfVeganSlip(restriction) ==
    IF restriction = S_vegetarian THEN S_vegetarian
    ELSE IF restriction = S_vegan THEN S_vegetarian
    ELSE IF restriction = S_gluten_hyphen_free THEN S_gluten_free
    ELSE IF restriction = S_dairy_hyphen_free THEN S_dairy_free
    ELSE <<>>

\* the dietary_info key an app_working.py restriction name reads
SimpleFlagOf(restriction) ==
    IF restriction = S_vegetarian THEN S_vegetarian
    ELSE IF restriction = S_vegan THEN S_vegan
    ELSE IF restriction = S_gluten_hyphen_free THEN S_gluten_free
    ELSE IF restriction = S_dairy_hyphen_free THEN S_dairy_free
    ELSE <<>>

\* mutant: only the first restriction is checked (return inside the loop)
MatchesFirstOnly(recipe_dietary, restrictions) ==
    IF restrictions = <<>> THEN "true"
    ELSE LET flag == SimpleFlagOf(Lower(Head(restrictions)))
         IN  IF flag = <<>> THEN "true"
             ELSE IF recipe_dietary.form = "list" THEN "AttributeError"
             ELSE IF ~DictGet(recipe_dietary, flag, FALSE) THEN "false"
             ELSE "true"

\* SimpleRecipeRecommender._matches_dietary_restrictions: "true", "false", or
\* "AttributeError" when .get is called on a list-form dietary_info
RECURSIVE matches_dietary_restrictions(_, _)
matches_dietary_restrictions(recipe_dietary, restrictions) ==
    IF restrictions = <<>> THEN "true"
    ELSE LET flag == SimpleFlagOf(Lower(Head(restrictions)))
         IN  IF flag = <<>>
             THEN matches_dietary_restrictions(recipe_dietary, Tail(restrictions))
             ELSE IF recipe_dietary.form = "list" THEN "AttributeError"
             ELSE IF ~DictGet(recipe_dietary, flag, FALSE) THEN "false"
             ELSE matches_dietary_restrictions(recipe_dietary, Tail(restrictions))

meat_ingredients == {S_chicken, S_beef, S_pork, S_lamb, S_fish, S_shrimp, S_bacon}
animal_ingredients == meat_ingredients \cup {S_cheese, S_milk, S_butter, S_eggs}

\* one restriction of app.py's inner loop: TRUE when the recipe violates it
EngineViolates(recipe, restriction) ==
    LET dietary_info == Get(recipe, "dietary_info", ListInfo(<<>>))
        text == Lower(Join(Get(recipe, "ingredients", <<>>)))
    IN  IF restriction = S_vegetarian
        THEN \E meat \in meat_ingredients : Contains(text, meat)
        ELSE IF restriction = S_vegan
        THEN \/ \E item \in {S_contains_dairy, S_contains_eggs} : InInfo(item, dietary_info)
             \/ \E animal \in animal_ingredients : Contains(text, animal)
        ELSE IF restriction = S_gluten_free THEN InInfo(S_contains_gluten, dietary_info)
        ELSE IF restriction = S_dairy_free THEN InInfo(S_contains_dairy, dietary_info)
        ELSE FALSE

\* the inner loop: break at the first violated restriction
RECURSIVE violates_restriction(_, _)
violates_restriction(recipe, restrictions) ==
    IF restrictions = <<>> THEN FALSE
    ELSE IF EngineViolates(recipe, Head(restrictions)) THEN TRUE
    ELSE violates_restriction(recipe, Tail(restrictions))

\* RecipeRecommendationEngine.filter_by_dietary_restrictions
filter_by_dietary_restrictions(recipes, restrictions) ==
    IF restrictions = <<>> THEN recipes
    ELSE LET Keep(recipe) == ~violates_restriction(recipe, restrictions)
         IN  SelectSeq(recipes, Keep)

(* ------------------------- substitution advisor ------------------------ *)
\* SimpleRecipeRecommender._get_substitutions: the table, in dict order
SimpleSubstitutions ==
    << <<S_butter, <<S_olive_oil, S_coconut_oil>> >>,
       <<S_milk, <<S_almond_milk, S_soy_milk>> >>,
       <<S_eggs, <<S_flax_eggs, S_applesauce>> >>,
       <<S_flour, <<S_almond_flour, S_coconut_flour>> >>,
       <<S_sugar, <<S_honey, S_maple_syrup>> >>,
       <<S_cream, <<S_coconut_cream, S_cashew_cream>> >>,
       <<S_cheese, <<S_nutritional_yeast, S_cashew_cheese>> >>,
       <<S_chicken, <<S_tofu, S_tempeh>> >>,
       <<S_beef, <<S_mushrooms, S_lentils>> >>,
       <<S_oil, <<S_butter, S_ghee>> >>,
       <<S_onion, <<S_shallots, S_garlic>> >>,
       <<S_garlic, <<S_garlic_powder, S_onion_powder>> >> >>

\* RecipeRecommendationEngine._load_substitutions: the table, in dict order
ingredient_substitutions ==
    << <<S_butter, <<S_olive_oil, S_coconut_oil, S_margarine>> >>,
       <<S_milk, <<S_almond_milk, S_soy_milk, S_coconut_milk>> >>,
       <<S_eggs, <<S_flax_eggs, S_chia_eggs, S_applesauce>> >>,
       <<S_flour, <<S_almond_flour, S_coconut_flour, S_oat_flour>> >>,
       <<S_sugar, <<S_honey, S_maple_syrup, S_stevia>> >>,
       <<S_chicken, <<S_tofu, S_tempeh, S_mushrooms>> >>,
       <<S_beef, <<S_lentils, S_black_beans, S_portobello_mushrooms>> >>,
       <<S_cheese, <<S_nutritional_yeast, S_cashew_cheese, S_vegan_cheese>> >>,
       <<S_cream, <<S_coconut_cream, S_cashew_cream, S_silken_tofu>> >>,
       <<S_bacon, <<S_tempeh_bacon, S_coconut_bacon, S_mushroom_bacon>> >> >>

\* seq[:n]
Prefix(seq, n) == SubSeq(seq, 1, IF Len(seq) < n THEN Len(seq) ELSE n)

\* the inner loop of _get_substitutions for one ingredient: the first table
\* entry whose key is a substring of the ingredient, cut to 2; <<>> if none
SimpleSubsFor(ingredient) ==
    LET ingredient_lower == Lower(ingredient)
        hits == {i \in 1..Len(SimpleSubstitutions) :
                    Contains(ingredient_lower, SimpleSubstitutions[i][1])}
    IN  IF hits = {} THEN <<>>
        ELSE Prefix(SimpleSubstitutions[CHOOSE i \in hits : \A j \in hits : i <= j][2], 2)

\* SimpleRecipeRecommender._get_substitutions: a dict as a sequence of
\* <<ingredient, substitutes>> in insertion order
RECURSIVE get_substitutions(_)
get_substitutions(missing_ingredients) ==
    LET first3 == Prefix(missing_ingredients, 3)
    IN  IF first3 = <<>> THEN <<>>
        ELSE LET subs == SimpleSubsFor(Head(first3))
                 rest == get_substitutions(Tail(first3))
             IN  IF subs = <<>> THEN rest ELSE << <<Head(first3), subs>> >> \o rest

\* RecipeRecommendationEngine.get_ingredient_substitutions
get_ingredient_substitutions(ingredient) ==
    LET ingredient_lower == Lower(ingredient)
        hits == {i \in 1..Len(ingredient_substitutions) :
                    \/ Contains(ingredient_lower, ingredient_substitutions[i][1])
                    \/ Contains(ingredient_substitutions[i][1], ingredient_lower)}
    IN  IF hits = {} THEN <<>>
        ELSE ingredient_substitutions[CHOOSE i \in hits : \A j \in hits : i <= j][2]

\* mutant: substitutions kept whole (no [:2])
RECURSIVE EngineSuggestionsUncut(_)
EngineSuggestionsUncut(first3) ==
    IF first3 = <<>> THEN <<>>
    ELSE LET substitutions == get_ingredient_substitutions(Head(first3))
             rest == EngineSuggestionsUncut(Tail(first3))
         IN  IF substitutions = <<>> THEN rest
             ELSE << <<Head(first3), substitutions>> >> \o rest

\* app.py lines 219-225: the suggestions for the first 3 missing ingredients
RECURSIVE EngineSuggestions(_)
EngineSuggestions(first3) ==
    IF first3 = <<>> THEN <<>>
    ELSE LET substitutions == get_ingredient_substitutions(Head(first3))
             rest == EngineSuggestions(Tail(first3))
         IN  IF substitutions = <<>> THEN rest
             ELSE << <<Head(first3), Prefix(substitutions, 2)>> >> \o rest

(* ---------------------------- lexical index --------------------------- *)
Digits == {"0","1","2","3","4","5","6","7","8","9"}
\* \w on a lower-cased character
IsWordChar(c) == c \in Range(LowerChars) \cup Digits \cup {"_"}

\* a few of sklearn's English stop words (stop_words='english')
StopWords == {S_and, S_the, S_of, S_with}

\* token_pattern (?u)\b\w\w+\b: the maximal runs of two or more word characters
RECURSIVE Scan(_, _, _)
Scan(s, i, cur) ==
    LET done == IF Len(cur) >= 2 THEN <<cur>> ELSE <<>>
    IN  IF i > Len(s) THEN done
        ELSE IF IsWordChar(s[i]) THEN Scan(s, i + 1, Append(cur, s[i]))
        ELSE done \o Scan(s, i + 1, <<>>)

\* the vectorizer's analyzer: lower-case, tokenize, drop stop words
Analyze(text) ==
    LET NotStop(t) == t \notin StopWords
    IN  SelectSeq(Scan(Lower(text), 1, <<>>), NotStop)

\* ngram_range=(1, 2): the unigrams and the space-joined bigrams of a text
Features(text) ==
    LET toks == Analyze(text)
    IN  Range(toks) \cup {toks[i] \o <<" ">> \o toks[i + 1] : i \in 1..(Len(toks) - 1)}

\* the tags of a list-form dietary_info, or the keys of a dict-form one
InfoItems(d) == IF d.form = "list" THEN d.tags ELSE d.keys

\* _prepare_vectors: the text profile of one recipe
RecipeText(recipe) ==
    Join(<< Join(Get(recipe, "ingredients", <<>>)),
            Get(recipe, "cuisine", <<>>),
            Get(recipe, "difficulty", <<>>),
            Join(InfoItems(Get(recipe, "dietary_info", ListInfo(<<>>)))) >>)

\* the fitted vocabulary of TfidfVectorizer.fit_transform
Vocabulary(rs) == UNION {Features(RecipeText(rs[i])) : i \in 1..Len(rs)}

\* __init__ completes: fit_transform raises ValueError on an empty vocabulary
EngineConstructed(rs) == rs = <<>> \/ Vocabulary(rs) # {}

\* the truth value of recipe_vectors at app.py line 158: None is falsy; a
\* scipy sparse matrix of shape (1, 1) is truthy when it holds a non-zero (the
\* one tf-idf weight, 1.0); for any other shape bool() raises ValueError
VectorsTruth(rs) ==
    IF rs = <<>> THEN "false"
    ELSE IF Len(rs) = 1 /\ Cardinality(Vocabulary(rs)) = 1 THEN "true"
    ELSE "ValueError"

\* app.py lines 162-168
QueryText(ingredients, cuisine_preference, difficulty) ==
    Join(<<Join(ingredients)>>
         \o (IF cuisine_preference # <<>> THEN <<cuisine_preference>> ELSE <<>>)
         \o (IF difficulty # <<>> THEN <<difficulty>> ELSE <<>>))

\* cosine_similarity of the query vector with the one recipe vector of a
\* (1, 1) matrix: both are l2-normalised over the single vocabulary term, so
\* the similarity is 1 when the query text has that term and 0 otherwise
similarities(rs, query_text) ==
    IF Vocabulary(rs) \cap Features(query_text) # {} THEN 1 ELSE 0

(* ------------------------------- scoring ------------------------------ *)
\* round(n / d, 0) for n >= 0, d > 0, ties to the even neighbour as Python's
\* round() does; a score is kept in tenths, so round(x, 1) is RoundDiv of 10x
RoundDiv(n, d) ==
    LET q == n \div d
        r == n % d
    IN  IF 2 * r < d THEN q
        ELSE IF 2 * r > d THEN q + 1
        ELSE IF q % 2 = 0 THEN q ELSE q + 1

\* list(a_set): the iteration order of a set of str follows the string hashes,
\* which differ from one process to the next; two of the orders are modelled
RECURSIVE SetToSeq(_)
SetToSeq(S) ==
    IF S = {} THEN <<>>
    ELSE LET x == CHOOSE y \in S : TRUE IN <<x>> \o SetToSeq(S \ {x})
Reverse(s) == [i \in 1..Len(s) |-> s[Len(s) + 1 - i]]
HashSeeds == {"a", "b"}
ListOf(S, seed) == IF seed = "a" THEN SetToSeq(S) ELSE Reverse(SetToSeq(S))

\* app_working.py line 57 / line 79: lower-cased, stripped set
SimpleNormalize(ingredients) == {Strip(Lower(ingredients[i])) : i \in 1..Len(ingredients)}
\* app.py lines 200-201: lower-cased set
EngineNormalize(ingredients) == {Lower(ingredients[i]) : i \in 1..Len(ingredients)}

\* app_working.py lines 62-76: the recipe passes the dietary and hard filters
\* (an AttributeError of the dietary check is caught at line 108: skipped)
SimplePassesFilters(recipe, q) ==
    /\ q.dietary_restrictions # <<>> =>
          matches_dietary_restrictions(Get(recipe, "dietary_info", DictInfo(<<>>, <<>>)),
                                       q.dietary_restrictions) = "true"
    /\ ~(q.max_cooking_time # 0 /\ Get(recipe, "cooking_time", 0) > q.max_cooking_time)
    /\ ~(q.difficulty # <<>> /\ Lower(Get(recipe, "difficulty", <<>>)) # Lower(q.difficulty))
    /\ ~(q.cuisine_preference # <<>>
          /\ Lower(Get(recipe, "cuisine", <<>>)) # Lower(q.cuisine_preference))

\* mutant: the direct_matches > 0 gate of line 96 is missing
SimpleIncludedUngated(recipe, q) ==
    /\ SimplePassesFilters(recipe, q)
    /\ Cardinality(SimpleNormalize(Get(recipe, "ingredients", <<>>))) # 0

\* app_working.py lines 79-96: the recipe is scored and appended
SimpleIncluded(recipe, q) ==
    LET recipe_ingredients == SimpleNormalize(Get(recipe, "ingredients", <<>>))
        query_ingredients == SimpleNormalize(q.ingredients)
    IN  /\ SimplePassesFilters(recipe, q)
        /\ Cardinality(recipe_ingredients) # 0
        /\ Cardinality(recipe_ingredients \cap query_ingredients) > 0

\* mutant: recipe_copy = recipe (no .copy()): the corpus record gets the keys
recipe_alias(recipe, derived) == [original |-> derived @@ recipe, copy |-> derived @@ recipe]

\* recipe_copy = recipe.copy() followed by recipe_copy[key] = value for the
\* derived keys: the corpus record as it is left, and the copy
recipe_copy(recipe, derived) == [original |-> recipe, copy |-> derived @@ recipe]

\* mutant: the weights 0.6 and 0.4 of line 93 exchanged
SimpleScoredPairSwapped(recipe, q, seed) ==
    LET recipe_ingredients == SimpleNormalize(Get(recipe, "ingredients", <<>>))
        query_ingredients == SimpleNormalize(q.ingredients)
        direct_matches == Cardinality(recipe_ingredients \cap query_ingredients)
        total_recipe_ingredients == Cardinality(recipe_ingredients)
        covered == Cardinality(query_ingredients \cap recipe_ingredients)
        nq == Cardinality(query_ingredients)
        missing_ingredients == ListOf(recipe_ingredients \ query_ingredients, seed)
    IN  recipe_copy(recipe,
          [match_score |->
             RoundDiv(400 * direct_matches * nq + 600 * covered * total_recipe_ingredients,
                      total_recipe_ingredients * nq),
           ingredient_match_percentage |->
             RoundDiv(1000 * direct_matches, total_recipe_ingredients),
           missing_ingredients |-> missing_ingredients,
           substitution_suggestions |-> get_substitutions(Prefix(missing_ingredients, 3))])

\* app_working.py lines 79-104: the corpus record and recipe_copy with its
\* derived fields; scores are in tenths (match_score 667 is 66.7)
SimpleScoredPair(recipe, q, seed) ==
    LET recipe_ingredients == SimpleNormalize(Get(recipe, "ingredients", <<>>))
        query_ingredients == SimpleNormalize(q.ingredients)
        direct_matches == Cardinality(recipe_ingredients \cap query_ingredients)
        total_recipe_ingredients == Cardinality(recipe_ingredients)
        covered == Cardinality(query_ingredients \cap recipe_ingredients)
        nq == Cardinality(query_ingredients)
        missing_ingredients == ListOf(recipe_ingredients \ query_ingredients, seed)
    IN  recipe_copy(recipe,
          [match_score |->
             RoundDiv(600 * direct_matches * nq + 400 * covered * total_recipe_ingredients,
                      total_recipe_ingredients * nq),
           ingredient_match_percentage |->
             RoundDiv(1000 * direct_matches, total_recipe_ingredients),
           missing_ingredients |-> missing_ingredients,
           substitution_suggestions |-> get_substitutions(Prefix(missing_ingredients, 3))])

\* the recipe_copy appended to recommendations at line 106
SimpleScored(recipe, q, seed) == SimpleScoredPair(recipe, q, seed).copy

\* the score a stable sort compares
ScoreKey(x) == x.match_score

\* mutant: the sort without reverse=True (ascending)
RECURSIVE SortByScoreAscending(_)
SortByScoreAscending(s) ==
    IF s = <<>> THEN <<>>
    ELSE LET sorted == SortByScoreAscending(SubSeq(s, 1, Len(s) - 1))
             x == s[Len(s)]
             n == Cardinality({i \in 1..Len(sorted) : ScoreKey(sorted[i]) <= ScoreKey(x)})
         IN  SubSeq(sorted, 1, n) \o <<x>> \o SubSeq(sorted, n + 1, Len(sorted))

\* mutant: a descending sort that puts a later equal key first (not stable)
RECURSIVE SortByScoreUnstable(_)
SortByScoreUnstable(s) ==
    IF s = <<>> THEN <<>>
    ELSE LET sorted == SortByScoreUnstable(SubSeq(s, 1, Len(s) - 1))
             x == s[Len(s)]
             n == Cardinality({i \in 1..Len(sorted) : ScoreKey(sorted[i]) > ScoreKey(x)})
         IN  SubSeq(sorted, 1, n) \o <<x>> \o SubSeq(sorted, n + 1, Len(sorted))

\* list.sort(key=match_score, reverse=True): stable, equal keys keep their order
RECURSIVE SortByScore(_)
SortByScore(s) ==
    IF s = <<>> THEN <<>>
    ELSE LET sorted == SortByScore(SubSeq(s, 1, Len(s) - 1))
             x == s[Len(s)]
             n == Cardinality({i \in 1..Len(sorted) : ScoreKey(sorted[i]) >= ScoreKey(x)})
         IN  SubSeq(sorted, 1, n) \o <<x>> \o SubSeq(sorted, n + 1, Len(sorted))

\* the recommendations list before the sort, in corpus order
RECURSIVE SimpleCandidates(_, _, _)
SimpleCandidates(rs, q, seed) ==
    IF rs = <<>> THEN <<>>
    ELSE (IF SimpleIncluded(Head(rs), q) THEN <<SimpleScored(Head(rs), q, seed)>> ELSE <<>>)
         \o SimpleCandidates(Tail(rs), q, seed)

\* SimpleRecipeRecommender.get_recommendations
Simple_get_recommendations(rs, q, seed) ==
    IF q.ingredients = <<>> THEN <<>>
    ELSE Prefix(SortByScore(SimpleCandidates(rs, q, seed)), q.limit)

\* self.recipes as SimpleRecipeRecommender.get_recommendations leaves it
SimpleCorpusAfter(rs, q, seed) ==
    IF q.ingredients = <<>> THEN rs
    ELSE [i \in 1..Len(rs) |->
            IF SimpleIncluded(rs[i], q) THEN SimpleScoredPair(rs[i], q, seed).original
            ELSE rs[i]]

\* app.py lines 190-197: the hard filters, compared without lower-casing
EnginePassesFilters(recipe, q) ==
    /\ ~(q.max_cooking_time # 0 /\ Get(recipe, "cooking_time", 0) > q.max_cooking_time)
    /\ ~(q.difficulty # <<>> /\ Get(recipe, "difficulty", <<>>) # q.difficulty)
    /\ ~(q.cuisine_preference # <<>> /\ Get(recipe, "cuisine", <<>>) # q.cuisine_preference)

\* app.py lines 200-225: the corpus record and recipe_copy with its derived
\* fields, scores in tenths
EngineScoredPair(recipe, q, seed, ml_score) ==
    LET recipe_ingredients == EngineNormalize(Get(recipe, "ingredients", <<>>))
        query_ingredients == EngineNormalize(q.ingredients)
        direct_matches == Cardinality(recipe_ingredients \cap query_ingredients)
        nr == IF recipe_ingredients = {} THEN 1 ELSE Cardinality(recipe_ingredients)
        nq == IF query_ingredients = {} THEN 1 ELSE Cardinality(query_ingredients)
        missing_ingredients == ListOf(recipe_ingredients \ query_ingredients, seed)
    IN  recipe_copy(recipe,
          [match_score |->
             RoundDiv(400 * ml_score * nr * nq + 400 * direct_matches * nq
                        + 200 * direct_matches * nr,
                      nr * nq),
           ingredient_match_percentage |-> RoundDiv(1000 * direct_matches, nr),
           missing_ingredients |-> missing_ingredients,
           substitution_suggestions |-> EngineSuggestions(Prefix(missing_ingredients, 3))])

\* the recipe_copy appended to recommendations at line 227
EngineScored(recipe, q, seed, ml_score) == EngineScoredPair(recipe, q, seed, ml_score).copy

RECURSIVE EngineCandidates(_, _, _, _)
EngineCandidates(candidates, q, seed, ml_score) ==
    IF candidates = <<>> THEN <<>>
    ELSE (IF EnginePassesFilters(Head(candidates), q)
          THEN <<EngineScored(Head(candidates), q, seed, ml_score)>> ELSE <<>>)
         \o EngineCandidates(Tail(candidates), q, seed, ml_score)

\* app.py lines 175-227: the recommendations list before the sort
EngineRecommendations(rs, q, seed) ==
    LET query_text == QueryText(q.ingredients, q.cuisine_preference, q.difficulty)
        ml_score == similarities(rs, query_text)
        candidates == IF q.dietary_restrictions # <<>>
                      THEN filter_by_dietary_restrictions(rs, q.dietary_restrictions)
                      ELSE rs
    IN  EngineCandidates(candidates, q, seed, ml_score)

\* RecipeRecommendationEngine.get_recommendations: what the call does,
\* "returned" with a list or "raised" (the ValueError of line 158 and the
\* KeyError of r['id'] at line 185 propagate).  Past line 158 the corpus has
\* one recipe, so original_index is 0 and ml_score is the one similarity.
Engine_get_recommendations(rs, q, seed) ==
    IF rs = <<>> THEN [status |-> "returned", value |-> <<>>]
    ELSE IF VectorsTruth(rs) = "ValueError" THEN [status |-> "raised", value |-> <<>>]
    ELSE IF /\ \E i \in 1..Len(rs) : "id" \notin DOMAIN rs[i]
            /\ (q.dietary_restrictions # <<>> =>
                   filter_by_dietary_restrictions(rs, q.dietary_restrictions) # <<>>)
    THEN [status |-> "raised", value |-> <<>>]
    ELSE [status |-> "returned",
          value |-> Prefix(SortByScore(EngineRecommendations(rs, q, seed)), q.limit)]

\* self.recipes as RecipeRecommendationEngine.get_recommendations leaves it
EngineCorpusAfter(rs, q, seed) ==
    IF Engine_get_recommendations(rs, q, seed).status = "raised" THEN rs
    ELSE LET query_text == QueryText(q.ingredients, q.cuisine_preference, q.difficulty)
             ml_score == similarities(rs, query_text)
             Scored(recipe) ==
                /\ ~violates_restriction(recipe, q.dietary_restrictions)
                /\ EnginePassesFilters(recipe, q)
         IN  [i \in 1..Len(rs) |->
                IF Scored(rs[i]) THEN EngineScoredPair(rs[i], q, seed, ml_score).original
                ELSE rs[i]]

(* ------------------------------- inputs ------------------------------- *)
MaxIngredients == 2
MaxRestrictions == 2
MaxLimit == 2
DefaultLimit == 10

IngredientPool == {S_rice, S_RiceSp, S_garlic, S_kale}
RestrictionPool == {S_vegetarian, S_vegan, S_gluten_free, S_gluten_hyphen_free,
                    S_dairy_free, S_dairy_hyphen_free, S_keto}

\* the sequences of at most n elements of S
SeqsUpTo(S, n) == UNION {[1..k -> S] : k \in 0..n}
\* those without a repeated element
DistinctSeqsUpTo(S, n) ==
    {s \in SeqsUpTo(S, n) : \A i, j \in 1..Len(s) : s[i] = s[j] => i = j}

IngredientLists == SeqsUpTo(IngredientPool, MaxIngredients)
RestrictionLists == DistinctSeqsUpTo(RestrictionPool, MaxRestrictions)
Limits == (1..MaxLimit) \cup {DefaultLimit}
CookingTimes == {0, 10, 15}
Difficulties == {<<>>, S_easy, S_Easy}
Cuisines == {<<>>, S_asian}
BaseIngredientLists == {<<>>, <<S_rice, S_garlic>>}
DietIngredientLists == {<<S_rice, S_garlic>>}

Query(i, d, t, f, c, l) ==
    [ingredients |-> i, dietary_restrictions |-> d, max_cooking_time |-> t,
     difficulty |-> f, cuisine_preference |-> c, limit |-> l]

\* the calls made: every ingredient list and limit without filters, every
\* restriction list on one ingredient list, every hard-filter setting
RankQueries == {Query(i, <<>>, 0, <<>>, <<>>, l) : i \in IngredientLists, l \in Limits}
DietQueries ==
    {Query(i, d, 0, <<>>, <<>>, DefaultLimit) : i \in DietIngredientLists, d \in RestrictionLists}
FilterQueries ==
    {Query(i, d, t, f, c, l) :
        i \in BaseIngredientLists, d \in {<<>>, <<S_vegetarian>>}, t \in CookingTimes,
        f \in Difficulties, c \in Cuisines, l \in {1, DefaultLimit}}
Queries == RankQueries \cup DietQueries \cup FilterQueries

NoQuery == Query(<<>>, <<>>, 0, <<>>, <<>>, DefaultLimit)

(* ---------------------------- feedback store -------------------------- *)
\* Python values that serve as ids: a str or an int, with its text
PyStr(text) == <<"str", text>>
PyInt(text) == <<"int", text>>

\* str(x) of a str or an int; json.dump writes a dict key the same way
py_str(x) == <<"str", x[2]>>

\* a dict is a sequence of <<key, value>> in insertion order, keys unique
HasKey(d, key) == \E i \in 1..Len(d) : d[i][1] = key
Lookup(d, key) == d[CHOOSE i \in 1..Len(d) : d[i][1] = key][2]
\* d[key] = value
Store(d, key, value) ==
    IF HasKey(d, key) THEN [i \in 1..Len(d) |-> IF d[i][1] = key THEN <<key, value>> ELSE d[i]]
    ELSE Append(d, <<key, value>>)

\* the content of a file: valid JSON text, an object written as its
\* key/value items in order (a key may be written twice), or text that is not
\* JSON (a file just opened with 'w', or overlapping writes)
NotJson == [valid |-> FALSE, items |-> <<>>]

\* json.dump(d, f): every key is written as a string, in dict order
json_dump(d) ==
    [valid |-> TRUE, items |-> [i \in 1..Len(d) |-> <<py_str(d[i][1]), d[i][2]>>]]

\* json.load(f) of valid text: a key written twice keeps its first position
\* and its last value
RECURSIVE json_load(_)
json_load(items) ==
    IF items = <<>> THEN <<>>
    ELSE LET n == Len(items)
         IN  Store(json_load(SubSeq(items, 1, n - 1)), items[n][1], items[n][2])

\* list.remove(x): the list without the first x
Remove(list, x) ==
    LET i == CHOOSE k \in 1..Len(list) : list[k] = x /\ \A j \in 1..(k - 1) : list[j] # x
    IN  SubSeq(list, 1, i - 1) \o SubSeq(list, i + 1, Len(list))

\* add_rating lines 254-260 on the loaded dict (the timestamp written next to
\* the rating is left out: nothing reads it)
add_rating(ratings, user_id, recipe_id, rating) ==
    LET with_user == IF ~HasKey(ratings, user_id) THEN Store(ratings, user_id, <<>>) ELSE ratings
    IN  Store(with_user, user_id,
              Store(Lookup(with_user, user_id), py_str(recipe_id), rating))

\* toggle_favorite lines 276-282 on the loaded dict
toggle_favorite(favorites, user_id, recipe_id, is_favorite) ==
    LET with_user == IF ~HasKey(favorites, user_id) THEN Store(favorites, user_id, <<>>)
                     ELSE favorites
        list == Lookup(with_user, user_id)
    IN  Store(with_user, user_id,
              IF is_favorite /\ recipe_id \notin Range(list) THEN Append(list, recipe_id)
              ELSE IF ~is_favorite /\ recipe_id \in Range(list) THEN Remove(list, recipe_id)
              ELSE list)

\* the requests served: two request threads of the development server, each
\* serving at most MaxRequests requests
MaxRequests == 2
Threads == {"t1", "t2"}
UserIds == {PyStr("alice"), PyInt("7")}
RecipeIds == {PyInt("5"), PyInt("6")}
Ratings == {3}

(* ---------------------------- state machine --------------------------- *)
VARIABLES
    recipes,    \* self.recipes: the corpus loaded from data/recipes.json
    hashSeed,   \* the process's string-hash seed (set iteration order)
    pc,         \* "idle", or "returned" after a get_recommendations call
    call,       \* the call made: which class, and its arguments
    outcome,    \* "none", "returned" or "raised"
    result,     \* the list the call returned
    loaded,     \* the corpus as load_recipes read it (never written)
    ratings_file,   \* the content of data/user_ratings.json
    favorites_file, \* the content of data/user_favorites.json
    threads,    \* each request thread: its position in the handler and its locals
    audit       \* the favorite calls completed so far (history, not program state)

recommenderVars == <<recipes, hashSeed, pc, call, outcome, result, loaded>>
feedbackVars == <<ratings_file, favorites_file, threads, audit>>
vars == <<recipes, hashSeed, pc, call, outcome, result, loaded,
          ratings_file, favorites_file, threads, audit>>

\* a request thread with no request
IdleThread ==
    [pc |-> "idle", op |-> "none", user_id |-> PyStr(""), recipe_id |-> PyInt(""),
     arg |-> 0, data |-> <<>>, seen |-> NotJson, stale |-> FALSE,
     served |-> 0, ret |-> "none"]

\* UserFeedbackSystem.__init__: _ensure_files has written {} to both files
InitFeedbackStore ==
    /\ ratings_file = json_dump(<<>>)
    /\ favorites_file = json_dump(<<>>)
    /\ threads = [t \in Threads |-> IdleThread]
    /\ audit = [overlapped |-> FALSE, favorite |-> {}, last |-> <<>>,
                before |-> json_dump(<<>>), repeated |-> FALSE]

Init ==
    /\ recipes \in Corpora
    /\ hashSeed \in HashSeeds
    /\ pc = "idle"
    /\ call = [engine |-> "none", query |-> NoQuery]
    /\ outcome = "none"
    /\ result = <<>>
    /\ loaded = recipes
    /\ InitFeedbackStore

\* a caller invokes SimpleRecipeRecommender.get_recommendations
SimpleGetRecommendations ==
    /\ pc = "idle"
    /\ \E q \in Queries :
          /\ call' = [engine |-> "simple", query |-> q]
          /\ result' = Simple_get_recommendations(recipes, q, hashSeed)
          /\ recipes' = SimpleCorpusAfter(recipes, q, hashSeed)
    /\ outcome' = "returned"
    /\ pc' = "returned"
    /\ UNCHANGED <<hashSeed, loaded, feedbackVars>>

\* a caller invokes RecipeRecommendationEngine.get_recommendations
EngineGetRecommendations ==
    /\ pc = "idle"
    /\ EngineConstructed(recipes)
    /\ \E q \in Queries :
          LET r == Engine_get_recommendations(recipes, q, hashSeed)
          IN  /\ call' = [engine |-> "engine", query |-> q]
              /\ result' = r.value
              /\ outcome' = r.status
              /\ recipes' = EngineCorpusAfter(recipes, q, hashSeed)
    /\ pc' = "returned"
    /\ UNCHANGED <<hashSeed, loaded, feedbackVars>>

\* the caller (suggest_recipes) has sent its response; the next request
Respond ==
    /\ pc = "returned"
    /\ pc' = "idle"
    /\ call' = [engine |-> "none", query |-> NoQuery]
    /\ outcome' = "none"
    /\ result' = <<>>
    /\ UNCHANGED <<recipes, hashSeed, loaded, feedbackVars>>

Next == SimpleGetRecommendations \/ EngineGetRecommendations \/ Respond

Spec == Init /\ [][Next]_vars

\* the file a request reads and writes
FileOf(op) == IF op = "add_rating" THEN ratings_file ELSE favorites_file

\* rate_recipe / toggle_favorite (app.py lines 425-474): a request arrives on
\* an idle thread and calls add_rating or toggle_favorite with its arguments
Call(t) ==
    /\ threads[t].pc = "idle"
    /\ threads[t].served < MaxRequests
    /\ \E op \in {"add_rating", "toggle_favorite"}, user_id \in UserIds,
          recipe_id \in RecipeIds :
          \E arg \in (IF op = "add_rating" THEN Ratings ELSE BOOLEAN) :
             threads' = [threads EXCEPT ![t] =
                            [@ EXCEPT !.pc = "called", !.op = op, !.user_id = user_id,
                                      !.recipe_id = recipe_id, !.arg = arg,
                                      !.stale = FALSE, !.ret = "none"]]
    /\ audit' = [audit EXCEPT !.overlapped =
                    @ \/ \E other \in Threads \ {t} : threads[other].pc # "idle"]
    /\ UNCHANGED <<recommenderVars, ratings_file, favorites_file>>

\* lines 251-260 / 273-282: open(file, 'r'), json.load and the update of the
\* loaded dict; text that is not JSON raises, the except returns False
Load(t) ==
    /\ threads[t].pc = "called"
    /\ LET me == threads[t]
           file == FileOf(me.op)
       IN  threads' = [threads EXCEPT ![t] =
              IF ~file.valid
              THEN [@ EXCEPT !.pc = "idle", !.ret = "False", !.served = @ + 1]
              ELSE [@ EXCEPT !.pc = "loaded", !.seen = file,
                             !.data = IF me.op = "add_rating"
                                      THEN add_rating(json_load(file.items), me.user_id,
                                                      me.recipe_id, me.arg)
                                      ELSE toggle_favorite(json_load(file.items), me.user_id,
                                                           me.recipe_id, me.arg)]]
    /\ UNCHANGED <<recommenderVars, ratings_file, favorites_file, audit>>

\* lines 262 / 284: open(file, 'w') truncates the file
OpenForWrite(t) ==
    /\ threads[t].pc = "loaded"
    /\ threads' = [threads EXCEPT ![t].pc = "opened"]
    /\ IF threads[t].op = "add_rating"
       THEN ratings_file' = NotJson /\ UNCHANGED favorites_file
       ELSE favorites_file' = NotJson /\ UNCHANGED ratings_file
    /\ UNCHANGED <<recommenderVars, audit>>

\* lines 263-265 / 285-287: json.dump and close write the text from offset 0,
\* and the call returns True.  When another thread has written the file since
\* this one opened it, the two texts overlap: the result is this text, or
\* this text followed by the tail of a longer one, which is not JSON.
Dump(t) ==
    /\ threads[t].pc = "opened"
    /\ LET me == threads[t]
           mine == me.op
           Written(text) ==
              /\ IF mine = "add_rating"
                 THEN ratings_file' = text /\ UNCHANGED favorites_file
                 ELSE favorites_file' = text /\ UNCHANGED ratings_file
              /\ threads' = [o \in Threads |->
                    IF o = t
                    THEN [me EXCEPT !.pc = "idle", !.ret = "True", !.served = @ + 1]
                    ELSE IF threads[o].pc = "opened" /\ threads[o].op = mine
                    THEN [threads[o] EXCEPT !.stale = TRUE]
                    ELSE threads[o]]
       IN  /\ \/ Written(json_dump(me.data))
              \/ me.stale /\ Written(NotJson)
           /\ audit' =
                IF mine = "toggle_favorite"
                THEN [audit EXCEPT
                        !.favorite = IF me.arg THEN @ \cup {<<me.user_id, me.recipe_id>>}
                                     ELSE @ \ {<<me.user_id, me.recipe_id>>},
                        !.last = <<me.user_id, me.recipe_id, me.arg>>,
                        !.before = me.seen,
                        !.repeated = (audit.last = <<me.user_id, me.recipe_id, me.arg>>)]
                ELSE audit
    /\ UNCHANGED recommenderVars

\* the state after construction, for the feedback routes: the recommender
\* is idle over an empty corpus
InitFeedback ==
    /\ recipes = <<>>
    /\ hashSeed = "a"
    /\ pc = "idle"
    /\ call = [engine |-> "none", query |-> NoQuery]
    /\ outcome = "none"
    /\ result = <<>>
    /\ loaded = recipes
    /\ InitFeedbackStore

NextFeedback == \E t \in Threads : Call(t) \/ Load(t) \/ OpenForWrite(t) \/ Dump(t)

SpecFeedback == InitFeedback /\ [][NextFeedback]_vars

(* ------------------------------- claims ------------------------------- *)
SimpleCalled == pc = "returned" /\ call.engine = "simple"
EngineCalled == pc = "returned" /\ call.engine = "engine"
EngineReturned == EngineCalled /\ outcome = "returned"

\* the claims' normalisation: lower-case, trimmed
NormSet(ingredients) == {Strip(Lower(ingredients[i])) : i \in 1..Len(ingredients)}

\* the position in the corpus of the recipe with this id
CorpusPos(id) == CHOOSE i \in 1..Len(recipes) : recipes[i].id = id

\* the scored candidates of the call made, before sorting and truncation
Survivors ==
    IF call.engine = "simple"
    THEN (IF call.query.ingredients = <<>> THEN <<>>
          ELSE SimpleCandidates(recipes, call.query, hashSeed))
    ELSE EngineRecommendations(recipes, call.query, hashSeed)

Min(a, b) == IF a < b THEN a ELSE b

\* C1: a call with an empty ingredient list returns an empty list and does
\* not raise, whatever the corpus and the other arguments (as claimed)
C1_EmptyIngredientsEmptyList ==
    (pc = "returned" /\ call.query.ingredients = <<>>)
        => (outcome = "returned" /\ result = <<>>)

\* C2: every returned result has match_score within 0..100 (0..1000 tenths)
\* and the match_score values are non-increasing along the returned list
C2_ScoreRangeAndOrder ==
    (pc = "returned" /\ outcome = "returned") =>
        /\ \A i \in 1..Len(result) :
              result[i].match_score >= 0 /\ result[i].match_score <= 1000
        /\ \A i, j \in 1..Len(result) :
              i < j => result[i].match_score >= result[j].match_score

\* C2 witness: two results with different scores, returned in the opposite
\* of their corpus order
C2_Witness ==
    /\ SimpleCalled
    /\ Len(result) = 2
    /\ result[1].match_score > result[2].match_score
    /\ result[2].match_score > 0
    /\ CorpusPos(result[2].id) < CorpusPos(result[1].id)

\* C3: the returned list is the first `limit` elements of the stable
\* descending sort of the surviving candidates: only candidates are returned,
\* min(limit, candidates) of them, ordered by score with ties in corpus
\* order, and a candidate left out ranks after every returned one
C3_StableSortTruncated ==
    (pc = "returned" /\ outcome = "returned") =>
        LET candidates == Survivors
        IN  /\ Len(result) = Min(call.query.limit, Len(candidates))
            /\ \A i \in 1..Len(result) : result[i] \in Range(candidates)
            /\ \A i, j \in 1..Len(result) :
                  i < j =>
                    \/ result[i].match_score > result[j].match_score
                    \/ /\ result[i].match_score = result[j].match_score
                       /\ CorpusPos(result[i].id) < CorpusPos(result[j].id)
            /\ \A s \in Range(candidates) \ Range(result) :
                  \A i \in 1..Len(result) :
                    \/ result[i].match_score > s.match_score
                    \/ /\ result[i].match_score = s.match_score
                       /\ CorpusPos(result[i].id) < CorpusPos(s.id)

\* C3 witness: two candidates tie and the limit cuts between them
C3_Witness ==
    /\ SimpleCalled
    /\ Len(Survivors) = 2
    /\ Survivors[1].match_score = Survivors[2].match_score
    /\ call.query.limit = 1
    /\ result = <<Survivors[1]>>

\* C4: for every returned result, missing_ingredients is the recipe's
\* normalised ingredient set minus the normalised query set, and so holds no
\* ingredient of the query (as claimed, for both classes)
C4_MissingIsSetDifference ==
    (pc = "returned" /\ outcome = "returned" /\ call.query.ingredients # <<>>) =>
        \A i \in 1..Len(result) :
            /\ Range(result[i].missing_ingredients)
                 = NormSet(Get(result[i], "ingredients", <<>>)) \ NormSet(call.query.ingredients)
            /\ Range(result[i].missing_ingredients) \cap NormSet(call.query.ingredients) = {}

\* C5: a returned recipe whose normalised ingredient set equals the normalised
\* query set has ingredient_match_percentage 100.0 and no missing ingredient,
\* and match_score 100.0 under the gated policy (as claimed, for both classes)
C5_ExactMatchIsFull ==
    (pc = "returned" /\ outcome = "returned" /\ call.query.ingredients # <<>>) =>
        \A i \in 1..Len(result) :
            NormSet(Get(result[i], "ingredients", <<>>)) = NormSet(call.query.ingredients) =>
                /\ result[i].ingredient_match_percentage = 1000
                /\ result[i].missing_ingredients = <<>>
                /\ call.engine = "simple" => result[i].match_score = 1000

\* C6 as claimed: no returned recipe has a normalised ingredient set disjoint
\* from the normalised query set, whichever class was called
C6_NoOverlapNeverReturned ==
    (pc = "returned" /\ outcome = "returned" /\ call.query.ingredients # <<>>) =>
        \A i \in 1..Len(result) :
            NormSet(Get(result[i], "ingredients", <<>>)) \cap NormSet(call.query.ingredients) # {}

\* C6 amended: under the direct-match-gated policy (SimpleRecipeRecommender)
\* no returned recipe has a normalised ingredient set disjoint from the
\* normalised query set, and a query matching no recipe returns the empty list
C6_GatedNoOverlapNeverReturned ==
    SimpleCalled =>
        /\ \A i \in 1..Len(result) :
              NormSet(Get(result[i], "ingredients", <<>>))
                 \cap NormSet(call.query.ingredients) # {}
        /\ (\A k \in 1..Len(recipes) :
               NormSet(Get(recipes[k], "ingredients", <<>>))
                  \cap NormSet(call.query.ingredients) = {}) => result = <<>>

\* C6 witness: a recipe with ingredients passes the filters, shares nothing
\* with the query and is left out, while another recipe is returned
C6_Witness ==
    /\ SimpleCalled
    /\ Len(result) = 1
    /\ \E k \in 1..Len(recipes) :
          /\ SimplePassesFilters(recipes[k], call.query)
          /\ NormSet(Get(recipes[k], "ingredients", <<>>)) # {}
          /\ NormSet(Get(recipes[k], "ingredients", <<>>))
                \cap NormSet(call.query.ingredients) = {}
          /\ result[1].id # recipes[k].id

\* the recipe with this id is in the returned list
InResult(id) == \E i \in 1..Len(result) : result[i].id = id

\* the call made, with its dietary restrictions replaced by d
WithRestrictions(d) == [call.query EXCEPT !.dietary_restrictions = d]

\* C7: the dietary check is a conjunction: a recipe passes a restriction list
\* exactly when it passes each restriction of the list alone, every recipe
\* passes the empty list, and every returned recipe passes every restriction
C7_DietaryConjunction ==
    pc = "returned" =>
        LET R == call.query.dietary_restrictions
        IN  /\ \A k \in 1..Len(recipes) :
                 LET d == Get(recipes[k], "dietary_info", DictInfo(<<>>, <<>>))
                 IN  /\ (matches_dietary_restrictions(d, R) = "true")
                          <=> (\A n \in 1..Len(R) :
                                  matches_dietary_restrictions(d, <<R[n]>>) = "true")
                     /\ matches_dietary_restrictions(d, <<>>) = "true"
                     /\ ~violates_restriction(recipes[k], R)
                          <=> (\A n \in 1..Len(R) : ~violates_restriction(recipes[k], <<R[n]>>))
                     /\ ~violates_restriction(recipes[k], <<>>)
            /\ filter_by_dietary_restrictions(recipes, <<>>) = recipes
            /\ SimpleCalled =>
                 \A i \in 1..Len(result) : \A n \in 1..Len(R) :
                    matches_dietary_restrictions(
                        Get(recipes[CorpusPos(result[i].id)], "dietary_info", DictInfo(<<>>, <<>>)),
                        <<R[n]>>) = "true"
            /\ EngineReturned =>
                 \A i \in 1..Len(result) : \A n \in 1..Len(R) :
                    ~violates_restriction(recipes[CorpusPos(result[i].id)], <<R[n]>>)

\* C7 witness: a recipe that matches the query passes the first of two
\* requested restrictions, fails the second and is not returned
C7_Witness ==
    /\ SimpleCalled
    /\ Len(call.query.dietary_restrictions) = 2
    /\ \E k \in 1..Len(recipes) :
          LET d == Get(recipes[k], "dietary_info", DictInfo(<<>>, <<>>))
              R == call.query.dietary_restrictions
          IN  /\ SimpleIncluded(recipes[k], WithRestrictions(<<>>))
              /\ matches_dietary_restrictions(d, <<R[1]>>) = "true"
              /\ SimpleFlagOf(R[1]) # <<>>
              /\ matches_dietary_restrictions(d, <<R[2]>>) = "false"
              /\ ~InResult(recipes[k].id)

\* what the call made would have returned with the restrictions d instead
ResultWith(d) ==
    IF call.engine = "simple"
    THEN [status |-> "returned",
          value |-> Simple_get_recommendations(recipes, WithRestrictions(d), hashSeed)]
    ELSE Engine_get_recommendations(recipes, WithRestrictions(d), hashSeed)

\* C8: a call whose one restriction is gluten_free (dairy_free) returns what
\* the same call with gluten-free (dairy-free) returns (as claimed)
C8_SpellingsAgree ==
    pc = "returned" =>
        /\ call.query.dietary_restrictions = <<S_gluten_free>> =>
              result = ResultWith(<<S_gluten_hyphen_free>>).value
        /\ call.query.dietary_restrictions = <<S_dairy_free>> =>
              result = ResultWith(<<S_dairy_hyphen_free>>).value

\* the flag the claim pairs with a restriction name
ClaimFlagOf(restriction) ==
    IF restriction = S_vegetarian THEN S_vegetarian
    ELSE IF restriction = S_vegan THEN S_vegan
    ELSE IF restriction = S_gluten_hyphen_free THEN S_gluten_free
    ELSE S_dairy_free

FlagRestrictions == {S_vegetarian, S_vegan, S_gluten_hyphen_free, S_dairy_hyphen_free}

\* the dict-form dietary_info d has the flag, set to true
FlagSet(d, flag) == \E n \in 1..Len(d.keys) : d.keys[n] = flag /\ d.vals[n] = TRUE

\* C9: for a flag-form recipe, SimpleRecipeRecommender treats each of
\* vegetarian, vegan, gluten-free, dairy-free as satisfied exactly when the
\* flag is present and true: a recipe that the same call without restrictions
\* would return is returned under the restriction iff its flag is set
C9_FlagFormIffFlagTrue ==
    (SimpleCalled /\ Len(call.query.dietary_restrictions) = 1
       /\ call.query.dietary_restrictions[1] \in FlagRestrictions
       /\ call.query.limit >= Len(recipes)) =>
        \A k \in 1..Len(recipes) :
            ("dietary_info" \in DOMAIN recipes[k] /\ recipes[k].dietary_info.form = "dict"
               /\ SimpleIncluded(recipes[k], WithRestrictions(<<>>))) =>
                (InResult(recipes[k].id)
                   <=> FlagSet(recipes[k].dietary_info,
                               ClaimFlagOf(call.query.dietary_restrictions[1])))

\* C9 witness: under `vegan`, a flag-form recipe whose vegan flag is false is
\* dropped although its vegetarian flag is true and it matches the query
C9_Witness ==
    /\ SimpleCalled
    /\ call.query.dietary_restrictions = <<S_vegan>>
    /\ call.query.limit >= Len(recipes)
    /\ \E k \in 1..Len(recipes) :
          /\ "dietary_info" \in DOMAIN recipes[k]
          /\ recipes[k].dietary_info.form = "dict"
          /\ SimpleIncluded(recipes[k], WithRestrictions(<<>>))
          /\ FlagSet(recipes[k].dietary_info, S_vegetarian)
          /\ ~FlagSet(recipes[k].dietary_info, S_vegan)
          /\ ~InResult(recipes[k].id)

\* the claim's rule for a tag-form recipe: the restriction fails
TagFormFails(recipe, restriction) ==
    LET tags == Range(recipe.dietary_info.tags)
        names == Get(recipe, "ingredients", <<>>)
        Has(words) == \E n \in 1..Len(names) : \E w \in words : Contains(Lower(names[n]), w)
    IN  IF restriction = S_vegetarian THEN Has(meat_ingredients)
        ELSE IF restriction = S_vegan
        THEN S_contains_dairy \in tags \/ S_contains_eggs \in tags \/ Has(animal_ingredients)
        ELSE IF restriction = S_gluten_free THEN S_contains_gluten \in tags
        ELSE S_contains_dairy \in tags

\* the recipe would be returned by the call made if it had no restrictions
IncludedWithoutRestrictions(recipe) ==
    IF call.engine = "simple" THEN SimpleIncluded(recipe, WithRestrictions(<<>>))
    ELSE EnginePassesFilters(recipe, call.query)

\* C10: both classes support tag-form recipes: under one of vegetarian, vegan,
\* gluten_free, dairy_free a tag-form recipe that the call without
\* restrictions would return is returned iff the claim's rule does not fail it
C10_TagFormSupported ==
    (pc = "returned" /\ outcome = "returned" /\ call.query.ingredients # <<>>
       /\ Len(call.query.dietary_restrictions) = 1
       /\ call.query.dietary_restrictions[1]
             \in {S_vegetarian, S_vegan, S_gluten_free, S_dairy_free}
       /\ call.query.limit >= Len(recipes)) =>
        \A k \in 1..Len(recipes) :
            ("dietary_info" \in DOMAIN recipes[k] /\ recipes[k].dietary_info.form = "list"
               /\ IncludedWithoutRestrictions(recipes[k])) =>
                (InResult(recipes[k].id)
                   <=> ~TagFormFails(recipes[k], call.query.dietary_restrictions[1]))

\* the claim's hard filters: each filter that is set is satisfied, difficulty
\* and cuisine compared without regard to letter case
SatisfiesHardFilters(recipe, q) ==
    /\ q.max_cooking_time # 0 => Get(recipe, "cooking_time", 0) <= q.max_cooking_time
    /\ q.difficulty # <<>> => Lower(Get(recipe, "difficulty", <<>>)) = Lower(q.difficulty)
    /\ q.cuisine_preference # <<>>
          => Lower(Get(recipe, "cuisine", <<>>)) = Lower(q.cuisine_preference)

\* the call made, with no hard filter set and no truncation
WithoutHardFilters ==
    [call.query EXCEPT !.max_cooking_time = 0, !.difficulty = <<>>,
                       !.cuisine_preference = <<>>, !.limit = DefaultLimit]

\* the ids the call made would return with no hard filter set
IdsWithoutHardFilters ==
    LET value == IF call.engine = "simple"
                 THEN Simple_get_recommendations(recipes, WithoutHardFilters, hashSeed)
                 ELSE Engine_get_recommendations(recipes, WithoutHardFilters, hashSeed).value
    IN  {value[i].id : i \in 1..Len(value)}

\* C11: every returned recipe satisfies every hard filter that was set
\* (difficulty and cuisine case-insensitively), and a recipe that the call
\* without hard filters returns and that satisfies them is not dropped (as
\* claimed, for both classes)
C11_HardFiltersExact ==
    (pc = "returned" /\ outcome = "returned" /\ call.query.ingredients # <<>>) =>
        /\ \A i \in 1..Len(result) : SatisfiesHardFilters(result[i], call.query)
        /\ call.query.limit >= Len(recipes) =>
              \A k \in 1..Len(recipes) :
                 (recipes[k].id \in IdsWithoutHardFilters
                    /\ SatisfiesHardFilters(recipes[k], call.query))
                   => InResult(recipes[k].id)

\* the substitution table of the class that was called
TableOfCall == IF call.engine = "simple" THEN SimpleSubstitutions ELSE ingredient_substitutions

\* the table entry matches the ingredient name: one is a substring of the
\* other, letter case ignored
EntryMatches(entry, ingredient) ==
    \/ Contains(Lower(ingredient), Lower(entry[1]))
    \/ Contains(Lower(entry[1]), Lower(ingredient))

\* C12: for every returned result, substitution_suggestions has at most 3
\* keys, each key is one of the first 3 missing_ingredients of that result,
\* and each value is a non-empty list of at most 2 names that is a prefix of
\* the substitute list of a table entry matching the key
C12_SuggestionsBounded ==
    (pc = "returned" /\ outcome = "returned") =>
        \A i \in 1..Len(result) :
            LET suggestions == result[i].substitution_suggestions
                first3 == Prefix(result[i].missing_ingredients, 3)
            IN  /\ Len(suggestions) <= 3
                /\ \A a, b \in 1..Len(suggestions) :
                      suggestions[a][1] = suggestions[b][1] => a = b
                /\ \A a \in 1..Len(suggestions) :
                      /\ suggestions[a][1] \in Range(first3)
                      /\ suggestions[a][2] # <<>>
                      /\ Len(suggestions[a][2]) <= 2
                      /\ \E n \in 1..Len(TableOfCall) :
                            /\ EntryMatches(TableOfCall[n], suggestions[a][1])
                            /\ suggestions[a][2]
                                 = Prefix(TableOfCall[n][2], Len(suggestions[a][2]))

\* C12 witness: a returned result with more than 3 missing ingredients
\* carries 3 suggestions, each cut from the table entry of its key
C12_Witness ==
    /\ SimpleCalled
    /\ \E i \in 1..Len(result) :
          /\ Len(result[i].missing_ingredients) > 3
          /\ Len(result[i].substitution_suggestions) = 3

\* records of data/recipes.json that lack an expected field
MissingId == [ingredients |-> <<S_rice>>]
MissingIngredients == [id |-> 8, difficulty |-> S_easy]
MalformedPool == {MissingId, MissingIngredients}

\* the record lacks an expected field
Malformed(recipe) == "id" \notin DOMAIN recipe \/ "ingredients" \notin DOMAIN recipe

\* the corpora holding one malformed record, alone or next to a recipe of
\* the pool, before or after it
MalformedCorpora ==
    {IF first THEN <<m>> \o c ELSE c \o <<m>> :
        c \in {x \in Corpora : Len(x) <= 1}, first \in BOOLEAN, m \in MalformedPool}

\* the state after construction over a corpus with one malformed record
InitMalformed ==
    /\ recipes \in MalformedCorpora
    /\ hashSeed \in HashSeeds
    /\ pc = "idle"
    /\ call = [engine |-> "none", query |-> NoQuery]
    /\ outcome = "none"
    /\ result = <<>>
    /\ loaded = recipes
    /\ InitFeedbackStore

SpecMalformed == InitMalformed /\ [][Next]_vars

\* the corpus with the malformed record removed
WithoutMalformed == SelectSeq(recipes, LAMBDA recipe : ~Malformed(recipe))

\* what the call made does on the corpus with the malformed record removed
ReferenceCall ==
    IF call.engine = "simple"
    THEN [status |-> "returned",
          value |-> Simple_get_recommendations(WithoutMalformed, call.query, hashSeed)]
    ELSE Engine_get_recommendations(WithoutMalformed, call.query, hashSeed)

\* C13: on a corpus with one malformed record the call returns, and returns
\* the list it returns on the corpus with that record removed (as claimed, for
\* both classes; calls that fail at app.py line 158 whatever the records are,
\* and empty ingredient lists, are left aside)
C13_MalformedRecordSkipped ==
    (/\ pc = "returned"
     /\ \E k \in 1..Len(recipes) : Malformed(recipes[k])
     /\ call.query.ingredients # <<>>
     /\ call.engine = "engine" => VectorsTruth(recipes) # "ValueError"
     /\ ReferenceCall.status = "returned") =>
        /\ outcome = "returned"
        /\ result = ReferenceCall.value

\* the update of the thread's completed request is in the store read back
UpdatePresent(thread) ==
    LET file == FileOf(thread.op)
        store == json_load(file.items)
        key == py_str(thread.user_id)
    IN  /\ file.valid
        /\ IF thread.op = "add_rating"
           THEN /\ HasKey(store, key)
                /\ HasKey(Lookup(store, key), py_str(thread.recipe_id))
                /\ Lookup(Lookup(store, key), py_str(thread.recipe_id)) = thread.arg
           ELSE (HasKey(store, key) /\ thread.recipe_id \in Range(Lookup(store, key)))
                   <=> thread.arg

\* C14: when two rating requests, or two favorite requests, for different
\* user/recipe keys ran concurrently and both have completed, both updates
\* are in the store (as claimed; user ids are strings here)
C14_NoLostUpdate ==
    \A a, b \in Threads :
        (/\ a # b
         /\ threads[a].pc = "idle" /\ threads[b].pc = "idle"
         /\ threads[a].served = 1 /\ threads[b].served = 1
         /\ threads[a].ret = "True" /\ threads[b].ret = "True"
         /\ audit.overlapped
         /\ threads[a].op = threads[b].op
         /\ <<threads[a].user_id, threads[a].recipe_id>>
               # <<threads[b].user_id, threads[b].recipe_id>>
         /\ threads[a].user_id[1] = "str" /\ threads[b].user_id[1] = "str")
          => (UpdatePresent(threads[a]) /\ UpdatePresent(threads[b]))

\* the fields get_recommendations computes for a result
DerivedFields ==
    {"match_score", "ingredient_match_percentage", "missing_ingredients",
     "substitution_suggestions"}

\* C15: after any sequence of get_recommendations calls the corpus is the
\* corpus that was loaded (same recipes, same order, same field values) and
\* no corpus record has one of the derived fields
C15_CorpusUnchanged ==
    /\ recipes = loaded
    /\ \A k \in 1..Len(recipes) : DOMAIN recipes[k] \cap DerivedFields = {}

\* C15 witness: a call has returned copies carrying the derived fields of
\* two corpus records
C15_Witness ==
    /\ pc = "returned"
    /\ outcome = "returned"
    /\ Len(result) = 2
    /\ \A i \in 1..Len(result) : DerivedFields \subseteq DOMAIN result[i]

\* the claim's lookup in the table of the class called: the substitutes of
\* the first entry, in table order, that matches in either direction
ClaimedSubstitutes(ingredient) ==
    LET hits == {n \in 1..Len(TableOfCall) : EntryMatches(TableOfCall[n], ingredient)}
    IN  IF hits = {} THEN <<>>
        ELSE TableOfCall[CHOOSE n \in hits : \A j \in hits : n <= j][2]

\* C16: the lookup made for each of the first 3 missing ingredients of a
\* returned result matches a table key contained in the name or containing
\* it: the result carries the first 2 substitutes of the first matching
\* entry, and no suggestion when no entry matches (as claimed, both classes)
C16_LookupBothDirections ==
    (pc = "returned" /\ outcome = "returned") =>
        \A i \in 1..Len(result) :
            LET suggestions == result[i].substitution_suggestions
                first3 == Prefix(result[i].missing_ingredients, 3)
            IN  \A n \in 1..Len(first3) :
                    IF ClaimedSubstitutes(first3[n]) = <<>>
                    THEN ~HasKey(suggestions, first3[n])
                    ELSE /\ HasKey(suggestions, first3[n])
                         /\ Lookup(suggestions, first3[n])
                              = Prefix(ClaimedSubstitutes(first3[n]), 2)

\* |x|
Abs(x) == IF x < 0 THEN -x ELSE x

\* C17: under the gated policy (SimpleRecipeRecommender), a result with m
\* direct matches, r distinct normalised recipe ingredients and q distinct
\* normalised query ingredients has ingredient_match_percentage within half
\* a tenth of 100*m/r and match_score within half a tenth of
\* 100*(0.6*m/r + 0.4*m/q), i.e. both rounded to one decimal (in tenths)
C17_GatedScoreFormula ==
    SimpleCalled =>
        \A i \in 1..Len(result) :
            LET R == NormSet(Get(result[i], "ingredients", <<>>))
                Q == NormSet(call.query.ingredients)
                m == Cardinality(R \cap Q)
                r == Cardinality(R)
                q == Cardinality(Q)
            IN  /\ 2 * Abs(r * result[i].ingredient_match_percentage - 1000 * m) <= r
                /\ 2 * Abs(r * q * result[i].match_score - (600 * m * q + 400 * m * r))
                      <= r * q

\* C17 witness: m = 2 and r = 3 give ingredient_match_percentage 66.7
C17_Witness ==
    /\ SimpleCalled
    /\ \E i \in 1..Len(result) :
          /\ Cardinality(NormSet(Get(result[i], "ingredients", <<>>))) = 3
          /\ Cardinality(NormSet(Get(result[i], "ingredients", <<>>))
                            \cap NormSet(call.query.ingredients)) = 2
          /\ result[i].ingredient_match_percentage = 667

\* what the call made would have done with the ingredient list i instead
CallWithIngredients(i) ==
    LET q == [call.query EXCEPT !.ingredients = i]
    IN  IF call.engine = "simple"
        THEN [status |-> "returned", value |-> Simple_get_recommendations(recipes, q, hashSeed)]
        ELSE Engine_get_recommendations(recipes, q, hashSeed)

\* the recipes of a returned list in order, with their scores
Ranking(value) ==
    [n \in 1..Len(value) |->
        <<value[n].id, value[n].match_score, value[n].ingredient_match_percentage>>]

\* C18: a non-empty ingredient list with the same lower-cased, trimmed set as
\* the list of the call made returns the same recipes in the same order with
\* the same match_score and ingredient_match_percentage, on the same corpus
\* and filters (as claimed, for both classes)
C18_DependsOnNormalizedSet ==
    (pc = "returned" /\ outcome = "returned" /\ call.query.ingredients # <<>>) =>
        \A i \in IngredientLists :
            (i # <<>> /\ NormSet(i) = NormSet(call.query.ingredients)) =>
                /\ CallWithIngredients(i).status = "returned"
                /\ Ranking(CallWithIngredients(i).value) = Ranking(result)

\* the favorites list of a user in a file, as json.load gives it
FavoritesIn(file, user_id) ==
    LET store == json_load(file.items)
    IN  IF HasKey(store, py_str(user_id)) THEN Lookup(store, py_str(user_id)) ELSE <<>>

\* no request is in progress and no two requests ever overlapped
SequentialCalls == ~audit.overlapped /\ \A t \in Threads : threads[t].pc = "idle"

\* C19: after sequential toggle_favorite calls that returned True, a user's
\* list holds no recipe id twice and holds an id iff the most recent call for
\* that user and recipe had is_favorite true; a call repeating the arguments
\* of the call before it leaves the store as it was, and a call leaves the
\* lists of the other users as they were (as claimed)
C19_FavoritesFollowLastCall ==
    SequentialCalls =>
        /\ favorites_file.valid
        /\ \A u \in UserIds :
              LET list == FavoritesIn(favorites_file, u)
              IN  /\ \A a, b \in 1..Len(list) : list[a] = list[b] => a = b
                  /\ \A r \in RecipeIds : r \in Range(list) <=> <<u, r>> \in audit.favorite
        /\ audit.repeated => json_load(favorites_file.items) = json_load(audit.before.items)
        /\ audit.last # <<>> =>
              \A u \in UserIds \ {audit.last[1]} :
                 FavoritesIn(favorites_file, u) = FavoritesIn(audit.before, u)

====
